---- MODULE Spec2Model ----
(***************************************************************************)
(* The stdio-to-HTTP bridge of src/stdio_bridge.py as a state machine.     *)
(*                                                                         *)
(* The bridge reads standard input line by line, decodes each line with    *)
(* json.loads, POSTs the decoded value to the MCP endpoint through one     *)
(* aiohttp session, and prints json.dumps of whatever forward_request      *)
(* returned.  The model keeps three kinds of data apart:                   *)
(*   - JSON text (what travels on stdin, stdout and in HTTP bodies): a     *)
(*     record [syntax, tree, ws] whose tree is the document's abstract     *)
(*     syntax and whose ws is its whitespace layout;                       *)
(*   - Python values (what json.loads returns and json.dumps takes);       *)
(*   - exceptions, as the name of the exception class.                     *)
(***************************************************************************)
EXTENDS Integers, Sequences, FiniteSets, TLC

\* ------------------------------------------------------------------ bounds
\* Longest input stream explored.
MaxLines == 2
\* Longest sequence of calls on one StdioBridge explored.
MaxCalls == 3

\* ------------------------------------------------------- program constants
HttpFailedCode == -32603
ParseErrorCode == -32700
DefaultUrl == "http://localhost:8001/mcp"

\* ---------------------------------------------------------------- JSON text
\* Abstract syntax of a JSON document.
TNull == [t |-> "null"]
TStr(s) == [t |-> "string", s |-> s]
\* a number literal; form is "int" (no fraction or exponent), "float", or
\* "huge" (an exponent beyond the range of a double, such as 1e999)
TNum(mant, form) == [t |-> "number", mant |-> mant, form |-> form]
\* the token  Infinity , which json.dumps emits for float('inf')
TInfinity == [t |-> "Infinity"]
TArr(items) == [t |-> "array", items |-> items]
TObj(m) == [t |-> "object", m |-> m]

\* ------------------------------------------------------------ Python values
PyNone == [t |-> "None"]
PyStr(s) == [t |-> "str", s |-> s]
\* an f-string  f"{s}{e}"  kept as its two parts
PyFmt(s, e) == [t |-> "str", s |-> s, e |-> e]
PyInt(n) == [t |-> "int", n |-> n]
PyFloat(mant) == [t |-> "float", mant |-> mant]
PyInf == [t |-> "float", inf |-> TRUE]
PyList(items) == [t |-> "list", items |-> items]
PyDict(m) == [t |-> "dict", m |-> m]

\* json.loads on a syntactically valid document: the value it builds.
RECURSIVE Decode(_)
Decode(tree) ==
    CASE tree.t = "null" -> PyNone
      [] tree.t = "string" ->
            IF "e" \in DOMAIN tree THEN PyFmt(tree.s, tree.e)
            ELSE PyStr(tree.s)
      [] tree.t = "number" ->
            IF tree.form = "int" THEN PyInt(tree.mant)
            ELSE IF tree.form = "huge" THEN PyInf
            ELSE PyFloat(tree.mant)
      [] tree.t = "Infinity" -> PyInf
      [] tree.t = "array" ->
            PyList([i \in DOMAIN tree.items |-> Decode(tree.items[i])])
      [] tree.t = "object" ->
            PyDict([k \in DOMAIN tree.m |-> Decode(tree.m[k])])

\* json.dumps: the document it writes for a value.
RECURSIVE Encode(_)
Encode(v) ==
    CASE v.t = "None" -> TNull
      [] v.t = "str" ->
            IF "e" \in DOMAIN v THEN [t |-> "string", s |-> v.s, e |-> v.e]
            ELSE TStr(v.s)
      [] v.t = "int" -> TNum(v.n, "int")
      [] v.t = "float" ->
            IF "inf" \in DOMAIN v THEN TInfinity ELSE TNum(v.mant, "float")
      [] v.t = "list" ->
            TArr([i \in DOMAIN v.items |-> Encode(v.items[i])])
      [] v.t = "dict" ->
            TObj([k \in DOMAIN v.m |-> Encode(v.m[k])])

\* A text: syntax says whether it is a JSON document at all, tree is the
\* document (TNull when there is none), ws the whitespace layout.
Text(syntax, tree, ws) == [syntax |-> syntax, tree |-> tree, ws |-> ws]

\* The result of a call that may raise: exc = "none" and the value, or the
\* exception class and a PyNone placeholder.
Returned(v) == [exc |-> "none", val |-> v]
Raised(e) == [exc |-> e, val |-> PyNone]

\* json.loads(text): JSONDecodeError for text that is not a JSON document
\* (blank, unbalanced, trailing garbage, any other junk), RecursionError for
\* a document nested deeper than the interpreter's recursion limit.
Loads(text) ==
    CASE text.syntax = "json" -> Returned(Decode(text.tree))
      [] text.syntax = "deep" -> Raised("RecursionError")
      [] OTHER -> Raised("JSONDecodeError")

\* A variant of json.dumps called with indent=2: one member per line.
DumpsIndented(v) == Text("json", Encode(v), "indented")

\* json.dumps(value) as print writes it: one line, Python's default
\* separators.
Dumps(v) == Text("json", Encode(v), "spaced")

\* --------------------------------------------------------------- the inputs
\* A line of standard input: its bytes are valid UTF-8 or not, and its text.
Line(bytes, text) == [bytes |-> bytes, text |-> text]

\* {"jsonrpc": "2.0", "id": <id>, "method": <method>}
RequestTree(id, method) ==
    TObj([jsonrpc |-> TStr("2.0"), id |-> TNum(id, "int"),
          method |-> TStr(method)])
\* {"jsonrpc": "2.0", "method": <method>}
NotificationTree(method) ==
    TObj([jsonrpc |-> TStr("2.0"), method |-> TStr(method)])

InitializeLine == Line("utf8", Text("json", RequestTree(1, "initialize"), "compact"))
ToolsListLine == Line("utf8", Text("json", RequestTree(2, "tools/list"), "compact"))
InitializedLine ==
    Line("utf8", Text("json", NotificationTree("notifications/initialized"), "compact"))
\* a JSON value that is not an object:  [1]
ArrayLine == Line("utf8", Text("json", TArr(<<TNum(1, "int")>>), "compact"))
\* the JSON value  null
NullLine == Line("utf8", Text("json", TNull, "compact"))
BlankLine == Line("utf8", Text("blank", TNull, "compact"))
\* a complete request followed by junk on the same line (an unbalanced
\* brace, say)
TrailingLine == Line("utf8", Text("trailing", RequestTree(2, "tools/list"), "compact"))
\* brackets nested deeper than the recursion limit
DeepLine == Line("utf8", Text("deep", TNull, "compact"))
\* a request with a stray byte that is not UTF-8 (0xFF) after it
NonUtf8Line == Line("invalid", Text("json", RequestTree(2, "tools/list"), "compact"))

InputLines ==
    {InitializeLine, ToolsListLine, InitializedLine, ArrayLine, NullLine,
     BlankLine, TrailingLine, DeepLine, NonUtf8Line}

\* Reading a line from sys.stdin (a text stream) decodes its bytes.  With the
\* strict error handler invalid bytes raise UnicodeDecodeError; with
\* surrogateescape (C/POSIX locale) they become lone surrogates, which no
\* JSON grammar rule accepts outside a string.  Which handler is in force
\* depends on the environment, so both outcomes are possible.
ReadOutcomes(line) ==
    IF line.bytes = "utf8" THEN {Returned(line.text)}
    ELSE {Raised("UnicodeDecodeError"),
          Returned(Text("surrogates", TNull, line.text.ws))}

\* ------------------------------------------------------------- the upstream
\* An HTTP reply: status, Content-Type, body text.
Reply(status, ctype, body) == [status |-> status, ctype |-> ctype, body |-> body]

\* request.get("id") on the JSON text side: the id a request document
\* carries, TNull when it has none.
IdTreeOf(tree) ==
    IF tree.t = "object" /\ "id" \in DOMAIN tree.m THEN tree.m.id ELSE TNull

ResultTree(idTree, result) ==
    TObj([jsonrpc |-> TStr("2.0"), id |-> idTree, result |-> result])
ErrorTree(idTree, code, message) ==
    TObj([jsonrpc |-> TStr("2.0"), id |-> idTree,
          error |-> TObj([code |-> TNum(code, "int"), message |-> TStr(message)])])

\* What the upstream may do with a POSTed document: the POST raises
\* (connection refused; or no reply within the session's default
\* ClientTimeout, when aiohttp raises TimeoutError; a DNS failure takes the
\* same path with another exception class), or a reply arrives.
Outcomes(tree) ==
    { [exc |-> "ClientConnectorError", reply |-> Reply(0, "", Text("empty", TNull, "compact"))],
      [exc |-> "TimeoutError", reply |-> Reply(0, "", Text("empty", TNull, "compact"))] }
    \cup
    { [exc |-> "none", reply |-> r] : r \in
        { \* the result, id echoed
          Reply(200, "application/json",
                Text("json", ResultTree(IdTreeOf(tree), TObj(<<>>)), "compact")),
          \* a remote application error, id echoed, pretty-printed
          Reply(200, "application/json",
                Text("json", ErrorTree(IdTreeOf(tree), -32602, "item not found"), "indented")),
          \* a transport-level rejection by the server under its own id
          Reply(400, "application/json",
                Text("json", ErrorTree(TStr("server-error"), -32600, "Bad Request"), "compact")),
          \* a result holding a number beyond the range of a double
          Reply(200, "application/json",
                Text("json", ResultTree(IdTreeOf(tree), TNum(1, "huge")), "compact")),
          \* accepted, no body
          Reply(202, "application/json", Text("empty", TNull, "compact")),
          \* a JSON body under another Content-Type
          Reply(200, "text/plain",
                Text("json", ResultTree(IdTreeOf(tree), TObj(<<>>)), "compact")),
          \* a gateway's HTML error page
          Reply(502, "application/json", Text("html", TNull, "compact")) } }

\* ---------------------------------------------------------------- the state
VARIABLES
    stdin,       \* the lines of standard input, in order
    nread,       \* how many of them the loop has taken
    pc,          \* "start", "idle" (at the for statement), "forwarding"
                 \* (awaiting the HTTP round trip), "exited", "killed"
    escaped,     \* the exception that left main(), "none" if none did
    request,     \* the value being forwarded while pc = "forwarding"
    mcp_url,     \* StdioBridge.mcp_url
    session,     \* StdioBridge.session: 0 for None, else an index in sessions
    sessions,    \* every ClientSession created so far: "open" or "closed"
    posts,       \* the POSTs issued so far, in order
    replies,     \* how each finished round trip ended, in order
    stdout,      \* the lines written to standard output, in order
    stdoutOpen,  \* FALSE once the reader of standard output has gone away
    unflushed,   \* lines print has put in sys.stdout's buffer that have not
                 \* reached the pipe
    signal,      \* the signal the process has received: "none", "SIGINT",
                 \* "SIGTERM"
    signalNread, \* nread at the moment the signal arrived
    cancelling,  \* the main task has been cancelled and the CancelledError
                 \* is not yet delivered
    calls,       \* the methods called on the StdioBridge from outside main,
                 \* in order, each with its argument
    returned,    \* what the latest of those forward_request calls returned
    hpc,         \* test_all_conport_tools: "initialize", "list_tools",
                 \* "testing" (in the loop over the tools), "done"; a
                 \* script of the harness scripts' model: "spawn", "setup",
                 \* "loop", "cleanup", "waiting", "done"
    available_tools,    \* the names the server listed
    total_tools_tested, \* the script's counters
    passed_tests,
    failed_tests,
    request_id,         \* the id of the next tools/call, 0 before the loop
    error_answers,      \* how many tools/call answers carried an error
    exit_code,          \* what the script returned, -1 while it runs
    script,             \* the harness script that runs, "none" if none does
    sent,               \* the requests carrying an id that the script has
                        \* written to the server, in order
    process,            \* the server process the script spawned: "none",
                        \* "running", "exited"
    terminate_called,   \* process.terminate() has been called
    kill_sent,          \* process.kill() has been called
    waited,             \* the seconds process.wait(timeout=5) has waited
    exit_path           \* how the script left its test body: "none" while
                        \* it is in it, "normal end", "early return",
                        \* "exception", "no process"

vars == <<stdin, nread, pc, escaped, request, mcp_url, session, sessions,
          posts, replies, stdout, stdoutOpen, unflushed, signal, signalNread,
          cancelling, calls, returned, hpc, available_tools,
          total_tools_tested, passed_tests, failed_tests, request_id,
          error_answers, exit_code, script, sent, process,
          terminate_called, kill_sent, waited, exit_path>>

\* What only a signal changes.
sigvars == <<signal, signalNread, cancelling>>

\* What only a caller of the class other than main changes.
apivars == <<calls, returned>>

\* The state of the harness script test_all_conport_tools.
harnessvars == <<hpc, available_tools, total_tools_tested, passed_tests,
                 failed_tests, request_id, error_answers, exit_code>>

\* What only the harness scripts' model changes.
scriptvars == <<script, sent, process, terminate_called, kill_sent, waited,
                exit_path>>

\* No harness script runs.
NoScript ==
    /\ script = "none"
    /\ sent = <<>>
    /\ process = "none"
    /\ terminate_called = FALSE
    /\ kill_sent = FALSE
    /\ waited = 0
    /\ exit_path = "none"

\* The script before its first message.
HarnessFresh ==
    /\ hpc = "initialize"
    /\ available_tools = {}
    /\ total_tools_tested = 0
    /\ passed_tests = 0
    /\ failed_tests = 0
    /\ request_id = 0
    /\ error_answers = 0
    /\ exit_code = -1

\* Sequences over S of length at most n.
SeqsUpTo(S, n) == UNION { [1..k -> S] : k \in 0..n }

\* StdioBridge() and the start of main(): nothing read, nothing written, no
\* session yet.
Init ==
    /\ stdin \in SeqsUpTo(InputLines, MaxLines)
    /\ nread = 0
    /\ pc = "start"
    /\ escaped = "none"
    /\ request = PyNone
    /\ mcp_url = DefaultUrl
    /\ session = 0
    /\ sessions = <<>>
    /\ posts = <<>>
    /\ replies = <<>>
    /\ stdout = <<>>
    /\ stdoutOpen = TRUE
    /\ unflushed = <<>>
    /\ signal = "none"
    /\ signalNread = 0
    /\ cancelling = FALSE
    /\ calls = <<>>
    /\ returned = PyNone
    /\ HarnessFresh
    /\ NoScript

\* ------------------------------------------------------------ StdioBridge
\* __aenter__: a new ClientSession replaces whatever self.session held.
AEnterSessions(ss) == Append(ss, "open")
AEnterSession(ss) == Len(ss) + 1

\* __aexit__: close self.session if there is one.
AExitSessions(s, ss) == IF s # 0 THEN [ss EXCEPT ![s] = "closed"] ELSE ss

\* A variant of __aexit__ that sets self.session back to None.
AExitSessionReset(s) == 0

\* __aexit__ leaves self.session as it is: it keeps the closed object.
AExitSession(s) == s

\* dict.get(key): the member, None when the key is absent.
DictGet(d, key) == IF key \in DOMAIN d.m THEN d.m[key] ELSE PyNone

\* A variant of ClientResponse.json() that first raises for an error status,
\* as raise_for_status() would.
ResponseJsonRaiseForStatus(reply) ==
    IF reply.status >= 400 THEN Raised("ClientResponseError")
    ELSE IF reply.ctype # "application/json" THEN Raised("ContentTypeError")
    ELSE IF reply.body.syntax = "empty" THEN Returned(PyNone)
    ELSE Loads(reply.body)

\* A variant of ClientResponse.json() that accepts a reply only under
\* status 200.
ResponseJsonOkOnly(reply) ==
    IF reply.status # 200 THEN Raised("ClientResponseError")
    ELSE IF reply.ctype # "application/json" THEN Raised("ContentTypeError")
    ELSE IF reply.body.syntax = "empty" THEN Returned(PyNone)
    ELSE Loads(reply.body)

\* aiohttp's ClientResponse.json(): ContentTypeError unless the reply is
\* declared application/json, None for an empty body, else json.loads of
\* the body.  The status code plays no part.
ResponseJson(reply) ==
    IF reply.ctype # "application/json" THEN Raised("ContentTypeError")
    ELSE IF reply.body.syntax = "empty" THEN Returned(PyNone)
    ELSE Loads(reply.body)

\* A variant of the except clause that answers under id null instead of
\* request.get("id").
HttpFailedResponseNullId(req, e) ==
    PyDict([jsonrpc |-> PyStr("2.0"),
            error |-> PyDict([code |-> PyInt(HttpFailedCode),
                              message |-> PyFmt("HTTP request failed: ", e)]),
            id |-> PyNone])

\* The envelope forward_request builds in its except clause.
HttpFailedResponse(req, e) ==
    PyDict([jsonrpc |-> PyStr("2.0"),
            error |-> PyDict([code |-> PyInt(HttpFailedCode),
                              message |-> PyFmt("HTTP request failed: ", e)]),
            id |-> DictGet(req, "id")])

\* forward_request from the point where the POST completes with outcome o:
\* the decoded reply, or the -32603 envelope when the POST or the decoding
\* raised.  request.get exists only on a dict: for any other request value
\* the except clause itself raises AttributeError.
ForwardRequest(req, o) ==
    LET r == IF o.exc # "none" THEN Raised(o.exc) ELSE ResponseJson(o.reply)
    IN  IF r.exc = "none" THEN r
        ELSE IF req.t = "dict" THEN Returned(HttpFailedResponse(req, r.exc))
        ELSE Raised("AttributeError")

\* ------------------------------------------------------------------- main
\* A variant of the except Exception clause whose envelope also carries a
\* result member.
ErrorResponseWithResult(e) ==
    PyDict([jsonrpc |-> PyStr("2.0"),
            result |-> PyNone,
            error |-> PyDict([code |-> PyInt(ParseErrorCode),
                              message |-> PyFmt("Parse error: ", e)]),
            id |-> PyNone])

\* The envelope main builds in its except Exception clause.
ErrorResponse(e) ==
    PyDict([jsonrpc |-> PyStr("2.0"),
            error |-> PyDict([code |-> PyInt(ParseErrorCode),
                              message |-> PyFmt("Parse error: ", e)]),
            id |-> PyNone])

\* A variant of print that puts the new line ahead of the earlier ones.
StdoutWriteAhead(out, i, v) == <<[src |-> i, text |-> Dumps(v)]>> \o out

\* A variant of print that writes the line twice.
StdoutWriteTwice(out, i, v) ==
    out \o <<[src |-> i, text |-> Dumps(v)], [src |-> i, text |-> Dumps(v)]>>

\* print(json.dumps(v), flush=True) for input line i.
StdoutWrite(out, i, v) == Append(out, [src |-> i, text |-> Dumps(v)])

\* A variant of print without flush=True: the line stays in the buffer of
\* sys.stdout (a pipe is block-buffered).
PrintUnflushed(out, buf, i, v) ==
    [out |-> out, buf |-> Append(buf, [src |-> i, text |-> Dumps(v)])]

\* print(..., flush=True) on a writable stdout: what the pipe and the
\* buffer hold afterwards.  The line goes out behind anything still
\* buffered and the buffer is left empty.
PrintFlushed(out, buf, i, v) ==
    [out |-> StdoutWrite(out \o buf, i, v), buf |-> <<>>]

\* An exception e leaves the for loop: the async with block runs __aexit__,
\* the except KeyboardInterrupt clause does not match, e leaves main().
Unwind(e) ==
    /\ sessions' = AExitSessions(session, sessions)
    /\ pc' = "exited"
    /\ escaped' = e

\* A variant of the loop that prints a response only for a message that
\* carries an id, and stays silent for a notification.
RespondToRequestsOnly(i, v) ==
    IF IdTreeOf(stdin[i].text.tree) = TNull
    THEN /\ pc' = "idle"
         /\ UNCHANGED <<stdout, unflushed, escaped, sessions>>
    ELSE IF stdoutOpen
    THEN /\ stdout' = PrintFlushed(stdout, unflushed, i, v).out
         /\ unflushed' = PrintFlushed(stdout, unflushed, i, v).buf
         /\ pc' = "idle"
         /\ UNCHANGED <<escaped, sessions>>
    ELSE /\ Unwind("BrokenPipeError")
         /\ unflushed' = StdoutWrite(StdoutWrite(unflushed, i, v), i,
                                     ErrorResponse("BrokenPipeError"))
         /\ UNCHANGED stdout

\* Lines 55 and 58-67: print v for line i.  When the write raises
\* (BrokenPipeError: nobody reads standard output any more) the except
\* Exception clause prints the -32700 envelope, that write raises too, and
\* the second exception leaves the loop.
Respond(i, v) ==
    IF stdoutOpen
    THEN /\ stdout' = PrintFlushed(stdout, unflushed, i, v).out
         /\ unflushed' = PrintFlushed(stdout, unflushed, i, v).buf
         /\ pc' = "idle"
         /\ UNCHANGED <<escaped, sessions>>
    ELSE /\ Unwind("BrokenPipeError")
         /\ unflushed' = StdoutWrite(StdoutWrite(unflushed, i, v), i,
                                     ErrorResponse("BrokenPipeError"))
         /\ UNCHANGED stdout

\* Lines 58-67 entered with an exception e other than a write error: print
\* the -32700 envelope; a failing write leaves the loop.
RespondError(i, e) ==
    IF stdoutOpen
    THEN /\ stdout' = PrintFlushed(stdout, unflushed, i, ErrorResponse(e)).out
         /\ unflushed' = PrintFlushed(stdout, unflushed, i, ErrorResponse(e)).buf
         /\ pc' = "idle"
         /\ UNCHANGED <<escaped, sessions>>
    ELSE /\ Unwind("BrokenPipeError")
         /\ unflushed' = StdoutWrite(unflushed, i, ErrorResponse(e))
         /\ UNCHANGED stdout

\* A variant of the loop that takes the next line while a forward is still
\* awaited.
MayReadWhileForwarding(p) == p \in {"idle", "forwarding"}

\* The for loop asks stdin for the next line only between two iterations:
\* the forward of the previous line is awaited and its response printed.
MayRead(p) == p = "idle"

\* A variant of main that enters the loop without async with: no session
\* is created until forward_request needs one.
StartWithoutSession ==
    /\ pc = "start"
    /\ pc' = "idle"
    /\ UNCHANGED <<stdin, nread, escaped, request, mcp_url, session, sessions,
                   posts, replies, stdout, stdoutOpen, unflushed, sigvars,
                   apivars, harnessvars, scriptvars>>

\* async with bridge: __aenter__ creates the session before any line is read.
Start ==
    /\ pc = "start"
    /\ sessions' = AEnterSessions(sessions)
    /\ session' = AEnterSession(sessions)
    /\ pc' = "idle"
    /\ UNCHANGED <<stdin, nread, escaped, request, mcp_url, posts, replies,
                   stdout, stdoutOpen, unflushed, sigvars,
                   apivars, harnessvars, scriptvars>>

\* for line in sys.stdin raises while decoding the bytes of the next line:
\* line 51 is outside the inner try, so the exception leaves the loop.
ReadUndecodable ==
    /\ MayRead(pc)
    /\ nread < Len(stdin)
    /\ \E rd \in ReadOutcomes(stdin[nread + 1]) :
          /\ rd.exc # "none"
          /\ Unwind(rd.exc)
    /\ nread' = nread + 1
    /\ UNCHANGED <<stdin, request, mcp_url, session, posts, replies, stdout,
                   stdoutOpen, unflushed, sigvars,
                   apivars, harnessvars, scriptvars>>

\* json.loads raises JSONDecodeError: continue.
SkipMalformed ==
    /\ MayRead(pc)
    /\ nread < Len(stdin)
    /\ \E rd \in ReadOutcomes(stdin[nread + 1]) :
          /\ rd.exc = "none"
          /\ Loads(rd.val).exc = "JSONDecodeError"
    /\ nread' = nread + 1
    /\ UNCHANGED <<stdin, pc, escaped, request, mcp_url, session, sessions,
                   posts, replies, stdout, stdoutOpen, unflushed, sigvars,
                   apivars, harnessvars, scriptvars>>

\* json.loads raises something else: the except Exception clause answers.
ParseFailure ==
    /\ MayRead(pc)
    /\ nread < Len(stdin)
    /\ \E rd \in ReadOutcomes(stdin[nread + 1]) :
          /\ rd.exc = "none"
          /\ Loads(rd.val).exc \notin {"none", "JSONDecodeError"}
          /\ RespondError(nread + 1, Loads(rd.val).exc)
    /\ nread' = nread + 1
    /\ UNCHANGED <<stdin, request, mcp_url, session, posts, replies, stdoutOpen,
                   sigvars,
                   apivars, harnessvars, scriptvars>>

\* A variant of the body that fills in an empty params member when the
\* message has none.
PostBodyDefaultParams(req) ==
    IF req.t = "dict" /\ "params" \notin DOMAIN req.m
    THEN Dumps(PyDict([k \in DOMAIN req.m \cup {"params"} |->
                          IF k = "params" THEN PyDict(<<>>) ELSE req.m[k]]))
    ELSE Dumps(req)

\* The body aiohttp sends for json=request: the serialised value, and no
\* body at all when request is None (json=None is the parameter's default
\* and means that no JSON payload was given).
PostBody(req) ==
    IF req = PyNone THEN Text("empty", TNull, "compact") ELSE Dumps(req)

\* A variant of the POST that is sent a second time.
SessionPostTwice(ps, i, url, s, req) ==
    ps \o << [src |-> i, url |-> url, session |-> s, body |-> PostBody(req)],
             [src |-> i, url |-> url, session |-> s, body |-> PostBody(req)] >>

\* A variant of the POST that goes to the default URL whatever the bridge
\* was constructed with.
SessionPostDefaultUrl(ps, i, url, s, req) ==
    Append(ps, [src |-> i, url |-> DefaultUrl, session |-> s,
                body |-> PostBody(req)])

\* self.session.post(self.mcp_url, json=request) for input line i: one POST.
SessionPost(ps, i, url, s, req) ==
    Append(ps, [src |-> i, url |-> url, session |-> s, body |-> PostBody(req)])

\* A variant of the test that finds a session missing on every call.
NoSessionEver(s) == TRUE

\* if not self.session
NoSession(s) == s = 0

\* json.loads succeeds; forward_request creates a session if there is none
\* and issues the POST.
StartForward ==
    /\ MayRead(pc)
    /\ nread < Len(stdin)
    /\ \E rd \in ReadOutcomes(stdin[nread + 1]) :
          /\ rd.exc = "none"
          /\ Loads(rd.val).exc = "none"
          /\ request' = Loads(rd.val).val
    /\ nread' = nread + 1
    /\ sessions' = IF NoSession(session) THEN AEnterSessions(sessions) ELSE sessions
    /\ session' = IF NoSession(session) THEN AEnterSession(sessions) ELSE session
    /\ posts' = SessionPost(posts, nread + 1, mcp_url, session', request')
    /\ pc' = "forwarding"
    /\ UNCHANGED <<stdin, escaped, mcp_url, replies, stdout, stdoutOpen,
                   unflushed, sigvars,
                   apivars, harnessvars, scriptvars>>

\* The round trip ends with outcome o; the result of forward_request is
\* printed, or the exception it raised is answered by the except clause.
CompleteForward ==
    /\ pc = "forwarding"
    /\ ~cancelling
    /\ \E o \in Outcomes(posts[Len(posts)].body.tree) :
          LET r == ForwardRequest(request, o)
          IN  /\ replies' = Append(replies, [src |-> nread, exc |-> o.exc,
                                             reply |-> o.reply])
              /\ IF r.exc = "none" THEN Respond(nread, r.val)
                 ELSE RespondError(nread, r.exc)
    /\ request' = PyNone
    /\ UNCHANGED <<stdin, nread, mcp_url, session, posts, stdoutOpen, sigvars,
                   apivars, harnessvars, scriptvars>>

\* End of standard input: the loop ends and the async with block closes the
\* session.
EndOfInput ==
    /\ pc = "idle"
    /\ nread = Len(stdin)
    /\ sessions' = AExitSessions(session, sessions)
    /\ pc' = "exited"
    /\ UNCHANGED <<stdin, nread, escaped, request, mcp_url, session, posts,
                   replies, stdout, stdoutOpen, unflushed, sigvars,
                   apivars, harnessvars, scriptvars>>

\* The process reading the bridge's standard output goes away.
PeerClosesStdout ==
    /\ stdoutOpen
    /\ pc # "exited"
    /\ stdoutOpen' = FALSE
    /\ UNCHANGED <<stdin, nread, pc, escaped, request, mcp_url, session,
                   sessions, posts, replies, stdout, unflushed, sigvars,
                   apivars, harnessvars, scriptvars>>

Next ==
    \/ Start
    \/ ReadUndecodable
    \/ SkipMalformed
    \/ ParseFailure
    \/ StartForward
    \/ CompleteForward
    \/ EndOfInput

\* The bridge with a peer that keeps reading its output.
Spec == Init /\ [][Next]_vars

\* The same bridge where no enabled step is put off for ever: the input
\* stream is finite and every HTTP exchange eventually completes or fails,
\* so the loop always gets to take its next step.
FairSpec == Spec /\ WF_vars(Next)

NextPipe ==
    \/ Next
    \/ PeerClosesStdout

\* The bridge with a peer that may stop reading its output at any time.
SpecPipe == Init /\ [][NextPipe]_vars

\* ------------------------------------------------------ a harness as peer
\* The messages the harness scripts pass to send_request: initialize,
\* notifications/initialized, tools/list.  json.dumps wrote them, so every
\* line parses.
HarnessLines == {InitializeLine, InitializedLine, ToolsListLine}

\* The bridge started with a harness at the other end of its pipes.
InitHarnessPeer ==
    /\ Init
    /\ stdin \in SeqsUpTo(HarnessLines, MaxLines)

\* The steps the loop takes on input that parses.
NextRelay ==
    \/ Start
    \/ StartForward
    \/ CompleteForward
    \/ EndOfInput

\* The bridge fed by a harness, where no enabled step is put off for ever:
\* every HTTP exchange eventually completes or fails.
FairSpecHarnessPeer ==
    InitHarnessPeer /\ [][NextRelay]_vars /\ WF_vars(NextRelay)

\* ---------------------------------------------------------------- signals
\* main handles one signal, SIGINT, through except KeyboardInterrupt; the
\* module installs no handler of its own, so what a signal does is what the
\* interpreter and asyncio.run do with it.

\* SIGTERM: no handler is installed, the default action ends the process at
\* once; no finally or __aexit__ runs.
Sigterm ==
    /\ signal = "none"
    /\ pc \in {"idle", "forwarding"}
    /\ signal' = "SIGTERM"
    /\ signalNread' = nread
    /\ pc' = "killed"
    /\ UNCHANGED <<stdin, nread, escaped, request, mcp_url, session, sessions,
                   posts, replies, stdout, stdoutOpen, unflushed, cancelling,
                   apivars, harnessvars, scriptvars>>

\* SIGINT under the interpreter's default handler: KeyboardInterrupt is
\* raised where the process stands.  Blocked on sys.stdin it is raised at
\* line 51, the async with block closes the session and line 68 swallows
\* it.  Awaiting the reply it is raised in the event loop, asyncio.run
\* cancels the main task, the CancelledError (not an Exception) passes both
\* except Exception clauses, the async with block closes the session, and
\* KeyboardInterrupt leaves asyncio.run.
SigintRaises ==
    /\ signal = "none"
    /\ pc \in {"idle", "forwarding"}
    /\ signal' = "SIGINT"
    /\ signalNread' = nread
    /\ Unwind(IF pc = "idle" THEN "none" ELSE "KeyboardInterrupt")
    /\ UNCHANGED <<stdin, nread, request, mcp_url, session, posts, replies,
                   stdout, stdoutOpen, unflushed, cancelling,
                   apivars, harnessvars, scriptvars>>

\* SIGINT under the handler asyncio.run installs (Python 3.11 and later):
\* the handler cancels the main task and returns.  Awaiting the reply, the
\* CancelledError is thrown in at the await and the bridge unwinds as
\* above.  Blocked on sys.stdin, nothing is awaited: the read is resumed
\* and the cancellation waits for the next await.
SigintCancels ==
    /\ signal = "none"
    /\ pc \in {"idle", "forwarding"}
    /\ signal' = "SIGINT"
    /\ signalNread' = nread
    /\ IF pc = "forwarding"
       THEN /\ Unwind("KeyboardInterrupt")
            /\ UNCHANGED cancelling
       ELSE /\ cancelling' = TRUE
            /\ UNCHANGED <<pc, escaped, sessions>>
    /\ UNCHANGED <<stdin, nread, request, mcp_url, session, posts, replies,
                   stdout, stdoutOpen, unflushed,
                   apivars, harnessvars, scriptvars>>

\* The pending CancelledError is thrown in at the first await of the POST.
CancelDelivered ==
    /\ pc = "forwarding"
    /\ cancelling
    /\ cancelling' = FALSE
    /\ Unwind("KeyboardInterrupt")
    /\ UNCHANGED <<stdin, nread, request, mcp_url, session, posts, replies,
                   stdout, stdoutOpen, unflushed, signal, signalNread,
                   apivars, harnessvars, scriptvars>>

NextSignal ==
    \/ Next
    \/ Sigterm
    \/ SigintRaises
    \/ SigintCancels
    \/ CancelDelivered

\* The bridge with a process that may be sent SIGINT or SIGTERM.
SpecSignal == Init /\ [][NextSignal]_vars

\* ------------------------------------------------- the class used directly
\* StdioBridge is a class of the module: a caller other than main may
\* construct one and call __aenter__, forward_request and __aexit__ on it in
\* any order.  Each call is awaited to its end before the next one.

\* A call and its argument (None for __aenter__ and __aexit__).
Call(op, arg) == [op |-> op, arg |-> arg]

\* The arguments forward_request is called with: dicts, as its signature
\* says; a request with an id and a notification without.
ApiRequests ==
    {Loads(InitializeLine.text).val, Loads(InitializedLine.text).val}

\* session.post on a closed ClientSession raises RuntimeError("Session is
\* closed") before anything is sent.
SessionClosedOutcome ==
    [exc |-> "RuntimeError", reply |-> Reply(0, "", Text("empty", TNull, "compact"))]

\* The mcp_url argument a caller constructs the bridge with: left out, or a
\* URL of the caller's own.
Omitted == "<omitted>"
ConstructorArgs == {Omitted, "http://127.0.0.1:9000/mcp"}

\* StdioBridge.__init__: self.mcp_url = mcp_url, the parameter defaulting
\* to http://localhost:8001/mcp.
StdioBridgeInit(arg) == IF arg = Omitted THEN DefaultUrl ELSE arg

\* StdioBridge(...): no session, nothing called yet.
InitCalls ==
    /\ stdin = <<>>
    /\ nread = 0
    /\ pc = "start"
    /\ escaped = "none"
    /\ request = PyNone
    /\ mcp_url \in {StdioBridgeInit(arg) : arg \in ConstructorArgs}
    /\ session = 0
    /\ sessions = <<>>
    /\ posts = <<>>
    /\ replies = <<>>
    /\ stdout = <<>>
    /\ stdoutOpen = TRUE
    /\ unflushed = <<>>
    /\ signal = "none"
    /\ signalNread = 0
    /\ cancelling = FALSE
    /\ calls = <<>>
    /\ returned = PyNone
    /\ HarnessFresh
    /\ NoScript

\* await bridge.__aenter__()
CallAEnter ==
    /\ Len(calls) < MaxCalls
    /\ calls' = Append(calls, Call("__aenter__", PyNone))
    /\ sessions' = AEnterSessions(sessions)
    /\ session' = AEnterSession(sessions)
    /\ UNCHANGED <<stdin, nread, pc, escaped, request, mcp_url, posts, replies,
                   stdout, stdoutOpen, unflushed, sigvars, returned,
                   harnessvars, scriptvars>>

\* await bridge.__aexit__(None, None, None)
CallAExit ==
    /\ Len(calls) < MaxCalls
    /\ calls' = Append(calls, Call("__aexit__", PyNone))
    /\ sessions' = AExitSessions(session, sessions)
    /\ session' = AExitSession(session)
    /\ UNCHANGED <<stdin, nread, pc, escaped, request, mcp_url, posts, replies,
                   stdout, stdoutOpen, unflushed, sigvars, returned,
                   harnessvars, scriptvars>>

\* await bridge.forward_request(req): a session is created if self.session
\* is None; the POST goes out on self.session unless that session is
\* closed, when session.post raises and the except clause answers.
CallForwardRequest ==
    /\ Len(calls) < MaxCalls
    /\ \E req \in ApiRequests :
          /\ calls' = Append(calls, Call("forward_request", req))
          /\ sessions' = IF NoSession(session) THEN AEnterSessions(sessions)
                         ELSE sessions
          /\ session' = IF NoSession(session) THEN AEnterSession(sessions)
                        ELSE session
          /\ IF sessions'[session'] = "closed"
             THEN /\ returned' = ForwardRequest(req, SessionClosedOutcome).val
                  /\ UNCHANGED <<posts, replies>>
             ELSE /\ posts' = SessionPost(posts, Len(calls'), mcp_url, session', req)
                  /\ \E o \in Outcomes(PostBody(req).tree) :
                        /\ replies' = Append(replies, [src |-> Len(calls'),
                                                       exc |-> o.exc,
                                                       reply |-> o.reply])
                        /\ returned' = ForwardRequest(req, o).val
    /\ UNCHANGED <<stdin, nread, pc, escaped, request, mcp_url, stdout,
                   stdoutOpen, unflushed, sigvars, harnessvars, scriptvars>>

NextCalls ==
    \/ CallAEnter
    \/ CallAExit
    \/ CallForwardRequest

\* One StdioBridge under any sequence of calls.
SpecCalls == InitCalls /\ [][NextCalls]_vars

\* ------------------------------------------------ test_all_conport_tools
\* The harness script src/test_all_conport_tools.py from its first message
\* to its return value.  Its peer is whatever answers on the pipes; the
\* answers are the inputs of the model.

\* all_expected_tools
AllExpectedTools ==
    {"get_product_context", "update_product_context", "get_active_context",
     "update_active_context", "log_decision", "get_decisions",
     "search_decisions_fts", "delete_decision_by_id", "log_progress",
     "get_progress", "update_progress", "delete_progress_by_id",
     "log_system_pattern", "get_system_patterns",
     "delete_system_pattern_by_id", "log_custom_data", "get_custom_data",
     "delete_custom_data", "search_project_glossary_fts",
     "search_custom_data_value_fts", "batch_log_items", "link_conport_items",
     "get_linked_items", "get_item_history", "semantic_search_conport",
     "get_recent_activity_summary", "get_workspace_detection_info",
     "get_conport_schema", "export_conport_to_markdown",
     "import_markdown_to_conport"}

\* tool_categories, in the order the two nested loops walk it.
ToolNames ==
    << "get_product_context", "get_active_context", "update_product_context",
       "update_active_context",
       "log_decision", "get_decisions", "search_decisions_fts",
       "delete_decision_by_id",
       "log_progress", "get_progress", "update_progress",
       "delete_progress_by_id",
       "log_system_pattern", "get_system_patterns",
       "delete_system_pattern_by_id",
       "log_custom_data", "get_custom_data", "delete_custom_data",
       "search_custom_data_value_fts", "search_project_glossary_fts",
       "semantic_search_conport", "get_recent_activity_summary",
       "get_workspace_detection_info", "get_conport_schema",
       "link_conport_items", "get_linked_items", "get_item_history",
       "export_conport_to_markdown", "import_markdown_to_conport",
       "batch_log_items",
       "update_decisions" >>

\* if len(available_names) != 30
ExpectedToolCount == 30
\* total_tools_tested >= 29
MinToolsTested == 29
\* request_id = 10
FirstRequestId == 10

\* What the server may list: the expected names; those and one more; as
\* many names with one of them replaced; nothing.
ServerToolLists ==
    { AllExpectedTools,
      AllExpectedTools \cup {"update_decisions"},
      (AllExpectedTools \ {"import_markdown_to_conport"}) \cup {"update_decisions"},
      {} }

\* What send_mcp_message may return for a tools/call: a result; an error
\* object whose message says the item was not found; an error object with
\* another message; its own {"error": "No response from server"}, whose
\* error member is a string.
ToolAnswers == {"result", "error_not_found", "error_other", "no_response"}

\* The script starts as the bridge's models do: nothing sent yet.
InitHarness == InitCalls /\ mcp_url = DefaultUrl

\* initialize_mcp: an error in the answer ends the script with 1.
HarnessInitialize ==
    /\ hpc = "initialize"
    /\ \E answer \in {"result", "error_other"} :
          IF answer = "result"
          THEN hpc' = "list_tools" /\ UNCHANGED exit_code
          ELSE hpc' = "done" /\ exit_code' = 1
    /\ UNCHANGED <<stdin, nread, pc, escaped, request, mcp_url, session,
                   sessions, posts, replies, stdout, stdoutOpen, unflushed,
                   sigvars, apivars, scriptvars, available_tools, total_tools_tested,
                   passed_tests, failed_tests, request_id, error_answers>>

\* list_tools and the check of the number of names.
HarnessListTools ==
    /\ hpc = "list_tools"
    /\ \E names \in ServerToolLists :
          /\ available_tools' = names
          /\ IF names = {} \/ Cardinality(names) # ExpectedToolCount
             THEN hpc' = "done" /\ exit_code' = 1 /\ UNCHANGED request_id
             ELSE hpc' = "testing" /\ request_id' = FirstRequestId
                  /\ UNCHANGED exit_code
    /\ UNCHANGED <<stdin, nread, pc, escaped, request, mcp_url, session,
                   sessions, posts, replies, stdout, stdoutOpen, unflushed,
                   sigvars, apivars, scriptvars, total_tools_tested, passed_tests,
                   failed_tests, error_answers>>

\* The next tool of tool_categories is not among the listed ones: it is
\* counted as failed and nothing is sent.
HarnessToolUnavailable ==
    /\ hpc = "testing"
    /\ total_tools_tested < Len(ToolNames)
    /\ ToolNames[total_tools_tested + 1] \notin available_tools
    /\ total_tools_tested' = total_tools_tested + 1
    /\ failed_tests' = failed_tests + 1
    /\ UNCHANGED <<stdin, nread, pc, escaped, request, mcp_url, session,
                   sessions, posts, replies, stdout, stdoutOpen, unflushed,
                   sigvars, apivars, scriptvars, hpc, available_tools, passed_tests,
                   request_id, error_answers, exit_code>>

\* The next tool is called and its answer counted.  An error whose message
\* says "not found" counts as passed; an error member that is a string has
\* no get method, and the AttributeError ends the script with 1.
HarnessToolCall ==
    /\ hpc = "testing"
    /\ total_tools_tested < Len(ToolNames)
    /\ ToolNames[total_tools_tested + 1] \in available_tools
    /\ total_tools_tested' = total_tools_tested + 1
    /\ request_id' = request_id + 1
    /\ \E answer \in ToolAnswers :
          /\ error_answers' = IF answer = "result" THEN error_answers
                              ELSE error_answers + 1
          /\ passed_tests' = IF answer \in {"result", "error_not_found"}
                             THEN passed_tests + 1 ELSE passed_tests
          /\ failed_tests' = IF answer = "error_other"
                             THEN failed_tests + 1 ELSE failed_tests
          /\ IF answer = "no_response"
             THEN hpc' = "done" /\ exit_code' = 1
             ELSE UNCHANGED <<hpc, exit_code>>
    /\ UNCHANGED <<stdin, nread, pc, escaped, request, mcp_url, session,
                   sessions, posts, replies, stdout, stdoutOpen, unflushed,
                   sigvars, apivars, scriptvars, available_tools>>

\* The loops are over: 0 when nothing failed and at least 29 tools were
\* tested, else 1.
HarnessFinish ==
    /\ hpc = "testing"
    /\ total_tools_tested = Len(ToolNames)
    /\ hpc' = "done"
    /\ exit_code' = IF failed_tests = 0 /\ total_tools_tested >= MinToolsTested
                    THEN 0 ELSE 1
    /\ UNCHANGED <<stdin, nread, pc, escaped, request, mcp_url, session,
                   sessions, posts, replies, stdout, stdoutOpen, unflushed,
                   sigvars, apivars, scriptvars, available_tools, total_tools_tested,
                   passed_tests, failed_tests, request_id, error_answers>>

NextHarness ==
    \/ HarnessInitialize
    \/ HarnessListTools
    \/ HarnessToolUnavailable
    \/ HarnessToolCall
    \/ HarnessFinish

\* One run of test_all_conport_tools against any server.
SpecHarness == InitHarness /\ [][NextHarness]_vars

\* ----------------------------------------------------- the harness scripts
\* The scripts of src/ that drive a server, each from its start to its end:
\* the script spawns the server (test_http_transport talks to a server that
\* runs already), runs its test body (the set-up messages, then the loop
\* over the tools) and stops the server in the finally clause of the body.

\* How many tools the loop of a script goes over.
MaxTools == 3

Scripts ==
    {"test_conport", "test_complete_tools", "test_conport_comprehensive",
     "test_all_conport_tools", "test_http_transport", "simple_http_test"}

\* The scripts that call subprocess.Popen.
SpawningScripts == Scripts \ {"test_http_transport"}

\* The scripts whose body has a loop over the tools.
LoopScripts == Scripts \ {"simple_http_test"}

\* The scripts whose loop has a try of its own around one tool's test:
\* except Exception counts the tool as failed and the loop goes on.
\* make_mcp_call of test_http_transport catches every exception itself.
CatchingScripts ==
    {"test_conport", "test_complete_tools", "test_conport_comprehensive",
     "test_http_transport"}

\* The scripts that return from the middle of the body when a set-up answer
\* is an error or the number of tools is not the expected one.
EarlyReturnScripts ==
    {"test_complete_tools", "test_all_conport_tools", "test_http_transport"}

\* The scripts that keep the id of the next tools/call in request_id.
CountingScripts ==
    {"test_complete_tools", "test_all_conport_tools", "test_http_transport"}

\* A request written to the server.
Sent(id, method) == [id |-> id, method |-> method]

\* The requests with an id that a script writes before its loop (the whole
\* of what simple_http_test writes).  The initialized notification has no id
\* except in test_http_transport, where make_mcp_call gives it its default
\* request_id=1.
SetupRequests(s) ==
    CASE s = "test_conport_comprehensive" -> << Sent(1, "initialize") >>
      [] s = "test_http_transport" ->
            << Sent(1, "initialize"), Sent(1, "notifications/initialized"),
               Sent(2, "tools/list") >>
      [] s = "simple_http_test" ->
            << Sent(1, "tools/list"), Sent(2, "tools/call") >>
      [] OTHER -> << Sent(1, "initialize"), Sent(2, "tools/list") >>

\* "id": 100 + passed + failed
ComprehensiveBaseId == 100
\* The ids written in the test table of test_conport: 10, 11, 12, ...
ConportFirstId == 10
\* process.wait(timeout=5)
WaitTimeout == 5

\* The id the next tools/call carries, after i tools, with p passed and f
\* failed and request_id r.
CallId(s, i, p, f, r) ==
    CASE s = "test_conport_comprehensive" -> ComprehensiveBaseId + p + f
      [] s = "test_conport" -> ConportFirstId + i
      [] OTHER -> r

\* How the test of one tool may go: an answer with a result; an answer with
\* an error whose message says the item was not found; an answer with
\* another error; the request is written and reading the answer fails (end
\* of file, a line that is not JSON); writing the request fails (the pipe
\* is broken, the connection refused); the tool is not among the listed
\* ones and nothing is sent (test_all_conport_tools only).
CallOutcomes(s) ==
    {"result", "error_not_found", "error_other", "read_fails", "write_fails"}
    \cup (IF s = "test_all_conport_tools" THEN {"unavailable"} ELSE {})

\* The request reached the server.
Written(o) == o \notin {"write_fails", "unavailable"}

\* The test of the tool raises where the loop sees it.  send_request raises
\* out of stdin.flush() or json.loads; send_mcp_message raises out of
\* stdin.flush() and returns {"error": "<a string>"} when reading fails,
\* and .get on that string raises; make_mcp_call returns None.
Raises(s, o) ==
    /\ o \in {"read_fails", "write_fails"}
    /\ s # "test_http_transport"

\* request_id += 1 comes after the send: in test_complete_tools inside the
\* try of the tool, so that a send that raises skips it; in
\* test_all_conport_tools after send_mcp_message, which raises only when
\* writing fails; in test_http_transport after make_mcp_call, which never
\* raises.
RequestIdAfter(s, o, r) ==
    CASE s = "test_complete_tools" -> IF Raises(s, o) THEN r ELSE r + 1
      [] s = "test_all_conport_tools" ->
            IF o \in {"write_fails", "unavailable"} THEN r ELSE r + 1
      [] s = "test_http_transport" -> r + 1
      [] OTHER -> r

\* Whether the tool is counted as passed: it has a result, or, in
\* test_all_conport_tools, an error that says "not found".
CountsAsPassed(s, o) ==
    \/ o = "result"
    \/ o = "error_not_found" /\ s = "test_all_conport_tools"

\* Whether the tool is counted as failed: an error answer, an exception the
\* loop catches, no response (test_http_transport), a tool not listed.
CountsAsFailed(s, o) ==
    \/ o = "error_other"
    \/ o = "error_not_found" /\ s # "test_all_conport_tools"
    \/ o \in {"read_fails", "write_fails"} /\ s \in CatchingScripts
    \/ o = "unavailable"

\* The script starts: nothing spawned, nothing written.
InitScripts ==
    /\ stdin = <<>>
    /\ nread = 0
    /\ pc = "start"
    /\ escaped = "none"
    /\ request = PyNone
    /\ mcp_url = DefaultUrl
    /\ session = 0
    /\ sessions = <<>>
    /\ posts = <<>>
    /\ replies = <<>>
    /\ stdout = <<>>
    /\ stdoutOpen = TRUE
    /\ unflushed = <<>>
    /\ signal = "none"
    /\ signalNread = 0
    /\ cancelling = FALSE
    /\ calls = <<>>
    /\ returned = PyNone
    /\ hpc = "spawn"
    /\ available_tools = {}
    /\ total_tools_tested = 0
    /\ passed_tests = 0
    /\ failed_tests = 0
    /\ request_id = 0
    /\ error_answers = 0
    /\ exit_code = -1
    /\ script \in Scripts
    /\ sent = <<>>
    /\ process = "none"
    /\ terminate_called = FALSE
    /\ kill_sent = FALSE
    /\ waited = 0
    /\ exit_path = "none"

\* What no harness script touches.
bridgevars == <<stdin, nread, pc, escaped, request, mcp_url, session,
                sessions, posts, replies, stdout, stdoutOpen, unflushed,
                sigvars, apivars, available_tools, error_answers, exit_code>>

\* Control leaves the test body: into the finally clause when the script
\* has one, else to the end of the script.
LeaveBody(path) ==
    /\ hpc' = IF script \in SpawningScripts THEN "cleanup" ELSE "done"
    /\ exit_path' = path

\* subprocess.Popen: the server runs, or Popen raises (no interpreter, no
\* such working directory) and the script ends without a process.
ScriptSpawn ==
    /\ hpc = "spawn"
    /\ \/ /\ script \in SpawningScripts
          /\ process' = "running"
          /\ hpc' = "setup"
          /\ UNCHANGED exit_path
       \/ /\ script \in SpawningScripts
          /\ hpc' = "done"
          /\ exit_path' = "no process"
          /\ UNCHANGED process
       \/ /\ script \notin SpawningScripts
          /\ hpc' = "setup"
          /\ UNCHANGED <<process, exit_path>>
    /\ UNCHANGED <<bridgevars, total_tools_tested, passed_tests, failed_tests,
                   request_id, script, sent, terminate_called, kill_sent,
                   waited>>

\* The set-up messages are answered and the loop begins (simple_http_test
\* has no loop: its body ends).
ScriptSetup ==
    /\ hpc = "setup"
    /\ sent' = sent \o SetupRequests(script)
    /\ IF script \in LoopScripts
       THEN /\ hpc' = "loop"
            /\ request_id' = IF script \in CountingScripts THEN FirstRequestId
                             ELSE request_id
            /\ UNCHANGED exit_path
       ELSE /\ LeaveBody("normal end")
            /\ UNCHANGED request_id
    /\ UNCHANGED <<bridgevars, total_tools_tested, passed_tests, failed_tests,
                   script, process, terminate_called, kill_sent, waited>>

\* A set-up answer is an error, or the server lists another number of tools
\* than expected: return.
ScriptEarlyReturn ==
    /\ hpc = "setup"
    /\ script \in EarlyReturnScripts
    /\ LeaveBody("early return")
    /\ UNCHANGED <<bridgevars, total_tools_tested, passed_tests, failed_tests,
                   request_id, script, sent, process, terminate_called,
                   kill_sent, waited>>

\* An exception leaves the body: one raised outside the try of a tool, a
\* KeyboardInterrupt, one raised by the print of an except clause.
ScriptBodyRaises ==
    /\ hpc \in {"setup", "loop"}
    /\ LeaveBody("exception")
    /\ UNCHANGED <<bridgevars, total_tools_tested, passed_tests, failed_tests,
                   request_id, script, sent, process, terminate_called,
                   kill_sent, waited>>

\* One turn of the loop over the tools.
ScriptToolCall ==
    /\ hpc = "loop"
    /\ total_tools_tested < MaxTools
    /\ \E o \in CallOutcomes(script) :
          /\ total_tools_tested' = total_tools_tested + 1
          /\ sent' = IF Written(o)
                     THEN Append(sent, Sent(CallId(script, total_tools_tested,
                                                   passed_tests, failed_tests,
                                                   request_id),
                                            "tools/call"))
                     ELSE sent
          /\ request_id' = RequestIdAfter(script, o, request_id)
          /\ passed_tests' = IF CountsAsPassed(script, o)
                             THEN passed_tests + 1 ELSE passed_tests
          /\ failed_tests' = IF CountsAsFailed(script, o)
                             THEN failed_tests + 1 ELSE failed_tests
          /\ IF Raises(script, o) /\ script \notin CatchingScripts
             THEN LeaveBody("exception")
             ELSE UNCHANGED <<hpc, exit_path>>
    /\ UNCHANGED <<bridgevars, script, process, terminate_called, kill_sent,
                   waited>>

\* The loop is over and the body ends after the summary.
ScriptLoopEnds ==
    /\ hpc = "loop"
    /\ total_tools_tested = MaxTools
    /\ LeaveBody("normal end")
    /\ UNCHANGED <<bridgevars, total_tools_tested, passed_tests, failed_tests,
                   request_id, script, sent, process, terminate_called,
                   kill_sent, waited>>

\* The server process ends by itself: it crashes, it reaches the end of its
\* input, it obeys SIGTERM.
ServerExits ==
    /\ process = "running"
    /\ ~kill_sent
    /\ process' = "exited"
    /\ UNCHANGED <<bridgevars, hpc, total_tools_tested, passed_tests,
                   failed_tests, request_id, script, sent, terminate_called,
                   kill_sent, waited, exit_path>>

\* finally: process.terminate()
ScriptTerminate ==
    /\ hpc = "cleanup"
    /\ terminate_called' = TRUE
    /\ hpc' = "waiting"
    /\ UNCHANGED <<bridgevars, total_tools_tested, passed_tests, failed_tests,
                   request_id, script, sent, process, kill_sent, waited,
                   exit_path>>

\* process.wait(timeout=5): a second passes and the process still runs.
WaitTick ==
    /\ hpc = "waiting"
    /\ process = "running"
    /\ waited < WaitTimeout
    /\ waited' = waited + 1
    /\ UNCHANGED <<bridgevars, hpc, total_tools_tested, passed_tests,
                   failed_tests, request_id, script, sent, process,
                   terminate_called, kill_sent, exit_path>>

\* process.wait returns: the process has exited.
WaitReturns ==
    /\ hpc = "waiting"
    /\ process = "exited"
    /\ hpc' = "done"
    /\ UNCHANGED <<bridgevars, total_tools_tested, passed_tests, failed_tests,
                   request_id, script, sent, process, terminate_called,
                   kill_sent, waited, exit_path>>

\* A variant of the except clause that lets the timeout pass.
OnTimeoutExpiredPass(k) == k

\* except subprocess.TimeoutExpired (a bare except in test_complete_tools
\* and test_all_conport_tools): process.kill()
OnTimeoutExpired(k) == TRUE

\* process.wait raises TimeoutExpired after 5 seconds.
WaitTimesOut ==
    /\ hpc = "waiting"
    /\ process = "running"
    /\ waited = WaitTimeout
    /\ kill_sent' = OnTimeoutExpired(kill_sent)
    /\ hpc' = "done"
    /\ UNCHANGED <<bridgevars, total_tools_tested, passed_tests, failed_tests,
                   request_id, script, sent, process, terminate_called,
                   waited, exit_path>>

\* SIGKILL ends the process.
ServerKilled ==
    /\ process = "running"
    /\ kill_sent
    /\ process' = "exited"
    /\ UNCHANGED <<bridgevars, hpc, total_tools_tested, passed_tests,
                   failed_tests, request_id, script, sent, terminate_called,
                   kill_sent, waited, exit_path>>

\* The statements of the finally clause.
ScriptCleanup ==
    \/ ScriptTerminate
    \/ WaitTick
    \/ WaitReturns
    \/ WaitTimesOut

NextScripts ==
    \/ ScriptSpawn
    \/ ScriptSetup
    \/ ScriptEarlyReturn
    \/ ScriptBodyRaises
    \/ ScriptToolCall
    \/ ScriptLoopEnds
    \/ ServerExits
    \/ ScriptCleanup
    \/ ServerKilled

\* One run of any of the scripts against any server.
SpecScripts == InitScripts /\ [][NextScripts]_vars

\* The same, where a finally clause that has been entered runs to its end
\* and a SIGKILL that has been sent is delivered.
FairSpecScripts ==
    SpecScripts /\ WF_vars(ScriptCleanup) /\ WF_vars(ServerKilled)

\* ============================================================== properties
\* Vocabulary shared by the properties below.

\* Input line i has been dealt with completely.
Handled(i) == i < nread \/ (i = nread /\ pc # "forwarding")

\* The line decodes and json.loads accepts it.
LineParses(l) == l.bytes = "utf8" /\ Loads(l.text).exc = "none"
LineValue(l) == Loads(l.text).val

\* A JSON-RPC request: an object with jsonrpc, method and an id key.
IsRequestLine(l) ==
    /\ LineParses(l)
    /\ LineValue(l).t = "dict"
    /\ {"jsonrpc", "method", "id"} \subseteq DOMAIN LineValue(l).m
\* A JSON-RPC notification: an object with no id key.
IsNotificationLine(l) ==
    /\ LineParses(l)
    /\ LineValue(l).t = "dict"
    /\ "id" \notin DOMAIN LineValue(l).m

\* The positions in stdout of the lines written for input line i.
OutputsFor(i) == { k \in DOMAIN stdout : stdout[k].src = i }
OutputFor(i) == stdout[CHOOSE k \in OutputsFor(i) : TRUE]
PostsFor(i) == { k \in DOMAIN posts : posts[k].src = i }
RepliesFor(i) == { k \in DOMAIN replies : replies[k].src = i }
ReplyFor(i) == replies[CHOOSE k \in RepliesFor(i) : TRUE]

\* The round trip ended without a decodable reply: the POST raised, or
\* ClientResponse.json() did.
RoundTripFailed(r) == r.exc # "none" \/ ResponseJson(r.reply).exc # "none"

\* text is a JSON-RPC envelope carrying id idTree.
IsEnvelopeWithId(text, idTree) ==
    /\ text.syntax = "json"
    /\ text.tree.t = "object"
    /\ "jsonrpc" \in DOMAIN text.tree.m
    /\ "id" \in DOMAIN text.tree.m
    /\ text.tree.m.id = idTree

\* text is a JSON-RPC error envelope with the given code and id.
IsErrorEnvelope(text, code, idTree) ==
    /\ IsEnvelopeWithId(text, idTree)
    /\ "error" \in DOMAIN text.tree.m
    /\ "result" \notin DOMAIN text.tree.m
    /\ text.tree.m.error.t = "object"
    /\ {"code", "message"} \subseteq DOMAIN text.tree.m.error.m
    /\ text.tree.m.error.m.code = TNum(code, "int")
    /\ text.tree.m.error.m.message.t = "string"

\* ---------------------------------------------------------------------- C1
\* C1 as stated: every handled request line with an id has exactly one
\* output line, and that line is an envelope whose id is the request's id,
\* whatever the upstream did.
C1_AsStated ==
    \A i \in 1..nread :
        (Handled(i) /\ IsRequestLine(stdin[i])) =>
            /\ Cardinality(OutputsFor(i)) = 1
            /\ IsEnvelopeWithId(OutputFor(i).text, IdTreeOf(stdin[i].text.tree))

\* C1 amended: every handled request line with an id has exactly one output
\* line; when the round trip failed it is a -32603 envelope with the
\* request's id, and when the upstream's reply is an envelope carrying the
\* request's id the line is an envelope carrying that id.
C1_OneLineEchoingId ==
    \A i \in 1..nread :
        (Handled(i) /\ IsRequestLine(stdin[i])) =>
            /\ Cardinality(OutputsFor(i)) = 1
            /\ Cardinality(RepliesFor(i)) = 1
            /\ RoundTripFailed(ReplyFor(i)) =>
                  IsErrorEnvelope(OutputFor(i).text, HttpFailedCode,
                                  IdTreeOf(stdin[i].text.tree))
            /\ (/\ ~RoundTripFailed(ReplyFor(i))
                /\ IsEnvelopeWithId(ReplyFor(i).reply.body,
                                    IdTreeOf(stdin[i].text.tree))) =>
                  IsEnvelopeWithId(OutputFor(i).text, IdTreeOf(stdin[i].text.tree))

\* Both cases of C1 have happened: one request answered by the upstream with
\* its id, another answered by the bridge after a failed round trip.
C1_Witness ==
    /\ \E i \in 1..nread :
          /\ Handled(i) /\ IsRequestLine(stdin[i])
          /\ OutputsFor(i) # {}
          /\ ~RoundTripFailed(ReplyFor(i))
          /\ IsEnvelopeWithId(OutputFor(i).text, IdTreeOf(stdin[i].text.tree))
    /\ \E i \in 1..nread :
          /\ Handled(i) /\ IsRequestLine(stdin[i])
          /\ OutputsFor(i) # {}
          /\ RoundTripFailed(ReplyFor(i))

\* ---------------------------------------------------------------------- C2
\* C2 as stated: every handled notification line was POSTed and has no
\* output line, whether the POST succeeded or failed.
C2_NotificationSilent ==
    \A i \in 1..nread :
        (Handled(i) /\ IsNotificationLine(stdin[i])) =>
            /\ Cardinality(PostsFor(i)) = 1
            /\ OutputsFor(i) = {}

\* ---------------------------------------------------------------------- C3
\* The failures C3 names: the POST raised, or the body that came back is not
\* JSON.
CallFailedOrNotJson(r) == r.exc # "none" \/ r.reply.body.syntax # "json"

\* C3 as stated: every handled line that parsed as JSON, whatever value it
\* holds, and whose call failed or brought back a body that is not JSON, has
\* exactly one output line, a -32603 error envelope under the input's id
\* (null when it has none).
C3_FailureAnsweredWith32603 ==
    \A i \in 1..nread :
        (/\ Handled(i)
         /\ LineParses(stdin[i])
         /\ RepliesFor(i) # {}
         /\ CallFailedOrNotJson(ReplyFor(i))) =>
            /\ Cardinality(OutputsFor(i)) = 1
            /\ IsErrorEnvelope(OutputFor(i).text, HttpFailedCode,
                               IdTreeOf(stdin[i].text.tree))

\* ---------------------------------------------------------------------- C4
\* A line that is not a JSON document: blank, trailing garbage, bytes that
\* are not UTF-8.
IsMalformedLine(l) == l.bytes # "utf8" \/ l.text.syntax \notin {"json", "deep"}

\* C4 as stated: a handled malformed line has no output line, no exception
\* has left main, and the loop stops only at the end of the input.
C4_MalformedDropped ==
    \A i \in 1..nread :
        (Handled(i) /\ IsMalformedLine(stdin[i])) =>
            /\ OutputsFor(i) = {}
            /\ escaped = "none"
            /\ pc = "exited" => nread = Len(stdin)

\* ---------------------------------------------------------------------- C5
\* Every number in the document survives the trip through a Python float:
\* no literal beyond the range of a double.
RECURSIVE Representable(_)
Representable(tree) ==
    CASE tree.t = "number" -> tree.form # "huge"
      [] tree.t = "array" ->
            \A k \in DOMAIN tree.items : Representable(tree.items[k])
      [] tree.t = "object" ->
            \A k \in DOMAIN tree.m : Representable(tree.m[k])
      [] OTHER -> TRUE

\* C5 as stated: whenever the upstream returned a JSON body, the one line
\* written for that input line holds exactly that JSON value.
C5_AsStated ==
    \A i \in 1..nread :
        (/\ Handled(i)
         /\ RepliesFor(i) # {}
         /\ ReplyFor(i).exc = "none"
         /\ ReplyFor(i).reply.body.syntax = "json") =>
            /\ Cardinality(OutputsFor(i)) = 1
            /\ OutputFor(i).text.tree = ReplyFor(i).reply.body.tree

\* C5 amended: whenever the upstream returned, as application/json, a JSON
\* body whose numbers a Python float can hold, the one line written for
\* that input line holds exactly that JSON value, for result replies and
\* remote error replies alike.
C5_JsonReplyPassedThrough ==
    \A i \in 1..nread :
        (/\ Handled(i)
         /\ RepliesFor(i) # {}
         /\ ReplyFor(i).exc = "none"
         /\ ReplyFor(i).reply.ctype = "application/json"
         /\ ReplyFor(i).reply.body.syntax = "json"
         /\ Representable(ReplyFor(i).reply.body.tree)) =>
            /\ Cardinality(OutputsFor(i)) = 1
            /\ OutputFor(i).text.tree = ReplyFor(i).reply.body.tree

\* A result reply and a remote error reply, the latter with an error status
\* and the former laid out differently from what json.dumps writes, have
\* both been written through.
C5_Witness ==
    /\ \E i \in 1..nread :
          /\ Handled(i) /\ RepliesFor(i) # {} /\ OutputsFor(i) # {}
          /\ ReplyFor(i).exc = "none"
          /\ ReplyFor(i).reply.body.syntax = "json"
          /\ "result" \in DOMAIN ReplyFor(i).reply.body.tree.m
          /\ OutputFor(i).text.tree = ReplyFor(i).reply.body.tree
    /\ \E i \in 1..nread :
          /\ Handled(i) /\ RepliesFor(i) # {} /\ OutputsFor(i) # {}
          /\ ReplyFor(i).exc = "none"
          /\ ReplyFor(i).reply.body.syntax = "json"
          /\ ReplyFor(i).reply.status >= 400
          /\ "error" \in DOMAIN ReplyFor(i).reply.body.tree.m
          /\ OutputFor(i).text.tree = ReplyFor(i).reply.body.tree
    /\ \E i \in 1..nread :
          /\ Handled(i) /\ RepliesFor(i) # {} /\ OutputsFor(i) # {}
          /\ ReplyFor(i).exc = "none"
          /\ ReplyFor(i).reply.body.syntax = "json"
          /\ ReplyFor(i).reply.body.ws # OutputFor(i).text.ws
          /\ OutputFor(i).text.tree = ReplyFor(i).reply.body.tree

\* ---------------------------------------------------------------------- C6
\* C6: output lines appear in the order of the input lines that produced
\* them: an earlier output line comes from an earlier input line.
C6_OutputInInputOrder ==
    \A j, k \in DOMAIN stdout : j < k => stdout[j].src < stdout[k].src

\* Requests with ids 1 and 2 were read in that order and the two output
\* lines carry ids 1 and 2 in that order.
C6_Witness ==
    /\ Len(stdout) >= 2
    /\ stdin[stdout[1].src] = InitializeLine
    /\ stdin[stdout[2].src] = ToolsListLine
    /\ IsEnvelopeWithId(stdout[1].text, TNum(1, "int"))
    /\ IsEnvelopeWithId(stdout[2].text, TNum(2, "int"))

\* ---------------------------------------------------------------------- C7
\* C7 as stated: while input lines remain unread the main loop has not
\* stopped.
C7_LoopKeepsRunning == nread < Len(stdin) => pc # "exited"

\* ---------------------------------------------------------------------- C8
\* Handling line i met a failure that is neither a JSON decode error nor an
\* upstream HTTP failure: json.loads raised another exception, the except
\* clause of forward_request raised, or writing the response raised.
OtherFailure(i) ==
    \/ stdin[i].bytes = "utf8"
       /\ Loads(stdin[i].text).exc \notin {"none", "JSONDecodeError"}
    \/ /\ LineParses(stdin[i])
       /\ RepliesFor(i) # {}
       /\ ForwardRequest(LineValue(stdin[i]), ReplyFor(i)).exc # "none"
    \/ escaped = "BrokenPipeError" /\ nread = i

\* C8 as stated: every such failure yields exactly one output line, the
\* -32700 envelope with id null, and the loop goes on to the next line.
C8_OtherFailureAnswered ==
    \A i \in 1..nread :
        (Handled(i) /\ OtherFailure(i)) =>
            /\ Cardinality(OutputsFor(i)) = 1
            /\ IsErrorEnvelope(OutputFor(i).text, ParseErrorCode, TNull)
            /\ ~(pc = "exited" /\ nread = i /\ i < Len(stdin))

\* ---------------------------------------------------------------------- C9
\* C9: after any handled prefix of the input, the POSTs issued are exactly
\* one for each line of the prefix that parsed, in input order.
C9_OnePostPerParsedLine ==
    /\ Len(posts) = Cardinality({ i \in 1..nread : LineParses(stdin[i]) })
    /\ \A k \in DOMAIN posts : LineParses(stdin[posts[k].src])
    /\ \A j, k \in DOMAIN posts : j < k => posts[j].src < posts[k].src

\* A round trip failed and the next line was forwarded after it, with one
\* POST each.
C9_Witness ==
    /\ Len(posts) = 2
    /\ \E k \in DOMAIN replies :
          /\ RoundTripFailed(replies[k])
          /\ replies[k].src < posts[Len(posts)].src

\* --------------------------------------------------------------------- C10
\* C10 as stated: the body of each POST is a JSON document holding the
\* parsed value of the input line that caused it, and no parsed line is
\* answered before its round trip has ended.
C10_PostBodyIsParsedInput ==
    /\ \A k \in DOMAIN posts :
          /\ posts[k].body.syntax = "json"
          /\ Loads(posts[k].body).val = LineValue(stdin[posts[k].src])
    /\ \A k \in DOMAIN stdout :
          LineParses(stdin[stdout[k].src]) => RepliesFor(stdout[k].src) # {}

\* initialize and notifications/initialized have both been POSTed.
C10_Witness ==
    /\ \E k \in DOMAIN posts : stdin[posts[k].src] = InitializeLine
    /\ \E k \in DOMAIN posts : stdin[posts[k].src] = InitializedLine

\* --------------------------------------------------------------------- C11
\* C11 as stated: on a finite input whose exchanges all end, the bridge
\* eventually terminates having taken every input line, and after it has
\* terminated it writes nothing and issues no POST.
C11_TerminatesAfterAllInput ==
    /\ <>(pc = "exited" /\ nread = Len(stdin))
    /\ [][pc = "exited" => (stdout' = stdout /\ posts' = posts)]_vars

\* --------------------------------------------------------------------- C12
\* C12 as stated: once a termination signal has arrived, whatever the bridge
\* was doing, no further input line is taken, nothing is left half written,
\* and when the process has ended its HTTP session has been closed.
C12_SignalStopsBridge ==
    signal # "none" =>
        /\ nread = signalNread
        /\ unflushed = <<>>
        /\ pc \in {"exited", "killed"} =>
              \A k \in DOMAIN sessions : sessions[k] = "closed"

\* --------------------------------------------------------------------- C13
\* C13 as stated: however the process ends (end of input, signal, exception
\* leaving the loop), no session it opened is still open.
C13_NoSessionLeftOpen ==
    pc \in {"exited", "killed"} =>
        \A k \in DOMAIN sessions : sessions[k] = "closed"

\* --------------------------------------------------------------------- C14
\* C14 as stated: every handled line whose forward ran into the timeout has
\* left the forwarding state with exactly one output line, the -32603
\* envelope for that message.
C14_TimeoutAnsweredWith32603 ==
    \A i \in 1..nread :
        (/\ Handled(i)
         /\ RepliesFor(i) # {}
         /\ ReplyFor(i).exc = "TimeoutError") =>
            /\ Cardinality(OutputsFor(i)) = 1
            /\ IsErrorEnvelope(OutputFor(i).text, HttpFailedCode,
                               IdTreeOf(stdin[i].text.tree))

\* --------------------------------------------------------------------- C15
\* Input line i has made the bridge produce a response: it parsed and its
\* round trip ended, or json.loads raised something the except Exception
\* clause answers.
ResponseProduced(i) ==
    \/ RepliesFor(i) # {}
    \/ /\ i <= nread
       /\ stdin[i].bytes = "utf8"
       /\ Loads(stdin[i].text).exc \notin {"none", "JSONDecodeError"}

\* C15: whenever the bridge is waiting for the next input line, nothing is
\* held back in the buffer of standard output and every response produced
\* so far is on the pipe.
C15_FlushedBeforeNextRead ==
    pc = "idle" =>
        /\ unflushed = <<>>
        /\ \A i \in 1..nread : ResponseProduced(i) => OutputsFor(i) # {}

\* The bridge waits for a further line with the response to the previous
\* one already on the pipe.
C15_Witness ==
    /\ pc = "idle"
    /\ nread >= 1
    /\ nread < Len(stdin)
    /\ OutputsFor(nread) # {}

\* --------------------------------------------------------------------- C16
\* Newlines inside a text: a pretty-printed document spans several lines.
EmbeddedNewlines(text) == IF text.ws = "indented" THEN 1 ELSE 0

\* The number of lines a reader of the pipe counts.
RECURSIVE LinesOnPipe(_)
LinesOnPipe(out) ==
    IF out = <<>> THEN 0
    ELSE 1 + EmbeddedNewlines(Head(out).text) + LinesOnPipe(Tail(out))

\* The document uses only tokens of the JSON grammar.
RECURSIVE IsJsonDocument(_)
IsJsonDocument(tree) ==
    CASE tree.t = "Infinity" -> FALSE
      [] tree.t = "array" ->
            \A k \in DOMAIN tree.items : IsJsonDocument(tree.items[k])
      [] tree.t = "object" ->
            \A k \in DOMAIN tree.m : IsJsonDocument(tree.m[k])
      [] OTHER -> TRUE

\* C16 as stated: every write is one line holding one JSON message with no
\* embedded newline, so the pipe holds as many lines as responses written.
C16_AsStated ==
    /\ \A k \in DOMAIN stdout :
          /\ stdout[k].text.syntax = "json"
          /\ IsJsonDocument(stdout[k].text.tree)
          /\ EmbeddedNewlines(stdout[k].text) = 0
    /\ LinesOnPipe(stdout) = Len(stdout)

\* C16 amended: every write is one line holding one serialisation by
\* json.dumps with no embedded newline, so the pipe holds as many lines as
\* responses written; the serialisation may hold the token Infinity.
C16_OneLinePerResponse ==
    /\ \A k \in DOMAIN stdout :
          /\ stdout[k].text.syntax = "json"
          /\ EmbeddedNewlines(stdout[k].text) = 0
    /\ LinesOnPipe(stdout) = Len(stdout)

\* A reply that arrived pretty-printed over several lines has been written
\* as one line, next to another response.
C16_Witness ==
    /\ Len(stdout) = 2
    /\ \E k \in DOMAIN replies :
          /\ replies[k].exc = "none"
          /\ EmbeddedNewlines(replies[k].reply.body) > 0
          /\ OutputsFor(replies[k].src) # {}
          /\ OutputFor(replies[k].src).text.tree = replies[k].reply.body.tree

\* --------------------------------------------------------------------- C17
\* POSTs issued whose round trip has not ended.
Outstanding == Len(posts) - Len(replies)

\* C17: while it runs the bridge is idle or forwarding, with one request
\* outstanding when forwarding and none when idle; it starts to forward
\* only from idle, on reading a line that parses; and it reads a further
\* line only when idle, with the response to every parsed line so far
\* written.
C17_OneRequestAtATime ==
    /\ [](/\ pc \in {"start", "idle", "forwarding", "exited"}
          /\ Outstanding = (IF pc = "forwarding" THEN 1 ELSE 0))
    /\ [][/\ (pc' = "forwarding" /\ posts' # posts) =>
                 /\ pc = "idle"
                 /\ nread' = nread + 1
                 /\ LineParses(stdin[nread'])
                 /\ Len(posts') = Len(posts) + 1
          /\ nread' # nread =>
                 /\ pc = "idle"
                 /\ Outstanding = 0
                 /\ \A i \in 1..nread :
                       (stdoutOpen /\ RepliesFor(i) # {}) =>
                           OutputsFor(i) # {}]_vars

\* The second request is in flight after the first one has been answered.
C17_Witness ==
    /\ pc = "forwarding"
    /\ Len(posts) = 2
    /\ Len(replies) = 1
    /\ Len(stdout) = 1

\* --------------------------------------------------------------------- C18
\* C18 as stated: no session exists until the first request is forwarded.
C18_AsStated == posts = <<>> => sessions = <<>>

\* C18 amended: the session is created on entering the loop, before any
\* line is read: once main has started, a session exists whether or not any
\* line has been forwarded, and none exists before.
C18_SessionCreatedOnEntry ==
    /\ pc = "start" => (sessions = <<>> /\ NoSession(session) /\ nread = 0)
    /\ pc # "start" => (Len(sessions) >= 1 /\ ~NoSession(session))

\* A run over input with no line that parses has ended: nothing was
\* forwarded, and a session was created and closed.
C18_Witness ==
    /\ pc = "exited"
    /\ Len(stdin) >= 1
    /\ nread = Len(stdin)
    /\ posts = <<>>
    /\ sessions = <<"closed">>

\* --------------------------------------------------------------------- C19
\* C19: one session at most is ever created, it stays open while the bridge
\* runs, and every POST is issued on it, also after a failed forward.
C19_OneSessionReused ==
    /\ Len(sessions) <= 1
    /\ pc \in {"idle", "forwarding"} => sessions = <<"open">>
    /\ \A k \in DOMAIN posts : posts[k].session = 1

\* A forward has failed and the next POST went out on the same session.
C19_Witness ==
    /\ Len(posts) = 2
    /\ Len(replies) >= 1
    /\ RoundTripFailed(replies[1])
    /\ posts[2].session = posts[1].session
    /\ sessions = <<"open">>

\* --------------------------------------------------------------------- C20
\* C20 as stated: a step that reads a malformed line issues no POST, writes
\* nothing and leaves the session and all other state as they were.
C20_MalformedChangesNothing ==
    [][(nread' = nread + 1 /\ IsMalformedLine(stdin[nread'])) =>
          UNCHANGED <<pc, escaped, request, mcp_url, session, sessions,
                      posts, replies, stdout, stdoutOpen, unflushed>>]_vars

\* --------------------------------------------------------------------- C21
\* What the loop prints for a parsed line whose round trip ended with
\* outcome o, computed from the line and the outcome alone.
RelayOutput(line, o) ==
    LET r == ForwardRequest(LineValue(line), o)
    IN  Dumps(IF r.exc = "none" THEN r.val ELSE ErrorResponse(r.exc))

\* C21 as stated: when the run has ended, every input line that parses has
\* exactly one output line, and that line is a function of the input line
\* and of the upstream's reply to it alone, whatever the lines before it
\* were.
C21_OutputDependsOnLineAlone ==
    pc = "exited" =>
        \A i \in 1..Len(stdin) :
            LineParses(stdin[i]) =>
                /\ i <= nread
                /\ Cardinality(RepliesFor(i)) = 1
                /\ Cardinality(OutputsFor(i)) = 1
                /\ OutputFor(i).text = RelayOutput(stdin[i], ReplyFor(i))

\* --------------------------------------------------------------------- C22
\* The line written for input line i was built by the bridge itself: no
\* round trip took place, or it ended without a decodable reply.
Synthesized(i) == RepliesFor(i) = {} \/ RoundTripFailed(ReplyFor(i))

\* C22: every line the bridge builds itself is an object with jsonrpc
\* "2.0", an id member, no result member, and an error object whose code is
\* the integer -32603 or -32700 and whose message is a string.
C22_SynthesizedEnvelopeShape ==
    \A k \in DOMAIN stdout :
        Synthesized(stdout[k].src) =>
            LET tree == stdout[k].text.tree
            IN  /\ stdout[k].text.syntax = "json"
                /\ tree.t = "object"
                /\ {"jsonrpc", "id", "error"} \subseteq DOMAIN tree.m
                /\ "result" \notin DOMAIN tree.m
                /\ tree.m.jsonrpc = TStr("2.0")
                /\ tree.m.error.t = "object"
                /\ {"code", "message"} \subseteq DOMAIN tree.m.error.m
                /\ tree.m.error.m.code \in
                      {TNum(HttpFailedCode, "int"), TNum(ParseErrorCode, "int")}
                /\ tree.m.error.m.message.t = "string"

\* An envelope of each kind has been written: -32603 from forward_request
\* and -32700 from main.
C22_Witness ==
    /\ \E k \in DOMAIN stdout :
          /\ Synthesized(stdout[k].src)
          /\ stdout[k].text.tree.m.error.m.code = TNum(HttpFailedCode, "int")
    /\ \E k \in DOMAIN stdout :
          /\ Synthesized(stdout[k].src)
          /\ stdout[k].text.tree.m.error.m.code = TNum(ParseErrorCode, "int")

\* --------------------------------------------------------------------- C23
\* The line parses to a JSON value that is not an object.
IsNonObjectLine(l) == LineParses(l) /\ LineValue(l).t # "dict"

\* C23 as stated: every line that parses to a value that is not an object
\* is POSTed once with that value as the JSON body; once handled it has
\* exactly one output line, the decoded reply when the call succeeded and
\* an error envelope of the bridge when it failed; and the loop goes on.
C23_NonObjectForwarded ==
    \A i \in 1..nread :
        IsNonObjectLine(stdin[i]) =>
            /\ Cardinality(PostsFor(i)) = 1
            /\ \A k \in PostsFor(i) :
                  /\ posts[k].body.syntax = "json"
                  /\ posts[k].body.tree = stdin[i].text.tree
            /\ Handled(i) =>
                  /\ Cardinality(OutputsFor(i)) = 1
                  /\ Cardinality(RepliesFor(i)) = 1
                  /\ ~RoundTripFailed(ReplyFor(i)) =>
                        OutputFor(i).text.tree =
                            Encode(ResponseJson(ReplyFor(i).reply).val)
                  /\ RoundTripFailed(ReplyFor(i)) =>
                        \/ IsErrorEnvelope(OutputFor(i).text, HttpFailedCode, TNull)
                        \/ IsErrorEnvelope(OutputFor(i).text, ParseErrorCode, TNull)
                  /\ i = nread =>
                        \/ pc = "idle"
                        \/ pc = "exited" /\ escaped = "none" /\ nread = Len(stdin)

\* --------------------------------------------------------------------- C24
\* C24 as stated: whatever the status, a reply that carries a JSON body is
\* written through, and a -32603 envelope is written only when the POST
\* raised or the body is not JSON.
C24_AsStated ==
    \A i \in 1..nread :
        (Handled(i) /\ RepliesFor(i) # {}) =>
            /\ (/\ ReplyFor(i).exc = "none"
                /\ ReplyFor(i).reply.body.syntax = "json") =>
                  /\ OutputsFor(i) # {}
                  /\ OutputFor(i).text.tree =
                         Encode(Decode(ReplyFor(i).reply.body.tree))
            /\ (/\ OutputsFor(i) # {}
                /\ IsErrorEnvelope(OutputFor(i).text, HttpFailedCode,
                                   IdTreeOf(stdin[i].text.tree))) =>
                  CallFailedOrNotJson(ReplyFor(i))

\* C24 amended: whatever the status, a reply declared application/json that
\* carries a JSON body is written through as json.loads reads it, and a
\* -32603 envelope is written only when the POST raised or response.json()
\* raised (the body is not JSON, or the reply is not declared
\* application/json).
C24_StatusIgnored ==
    \A i \in 1..nread :
        (Handled(i) /\ RepliesFor(i) # {}) =>
            /\ (/\ ReplyFor(i).exc = "none"
                /\ ReplyFor(i).reply.ctype = "application/json"
                /\ ReplyFor(i).reply.body.syntax = "json") =>
                  /\ OutputsFor(i) # {}
                  /\ OutputFor(i).text.tree =
                         Encode(Decode(ReplyFor(i).reply.body.tree))
            /\ (/\ OutputsFor(i) # {}
                /\ IsErrorEnvelope(OutputFor(i).text, HttpFailedCode,
                                   IdTreeOf(stdin[i].text.tree))) =>
                  RoundTripFailed(ReplyFor(i))

\* A reply under an error status has been written through.
C24_Witness ==
    \E i \in 1..nread :
        /\ Handled(i) /\ RepliesFor(i) # {} /\ OutputsFor(i) # {}
        /\ ReplyFor(i).exc = "none"
        /\ ReplyFor(i).reply.status >= 400
        /\ ReplyFor(i).reply.body.syntax = "json"
        /\ OutputFor(i).text.tree = ReplyFor(i).reply.body.tree

\* --------------------------------------------------------------------- C25
\* How many of the lines read so far satisfy P.
LinesRead(P(_)) == Cardinality({ i \in 1..nread : P(stdin[i]) })

\* json.loads did not reject the line as malformed: it returned a value or
\* raised something other than JSONDecodeError.
NotRejected(l) == l.bytes = "utf8" /\ Loads(l.text).exc # "JSONDecodeError"

\* C25 as stated: the lines written never outnumber the lines read that
\* parsed as JSON, and no input line has two output lines.
C25_AsStated ==
    /\ Len(stdout) <= LinesRead(LineParses)
    /\ \A i \in 1..Len(stdin) : Cardinality(OutputsFor(i)) <= 1

\* C25 amended: the lines written never outnumber the lines read that
\* json.loads did not reject with JSONDecodeError, every line written
\* belongs to such a line already read, and no input line has two output
\* lines.
C25_NoUnsolicitedLine ==
    /\ Len(stdout) <= LinesRead(NotRejected)
    /\ \A k \in DOMAIN stdout :
          /\ stdout[k].src \in 1..nread
          /\ NotRejected(stdin[stdout[k].src])
    /\ \A i \in 1..Len(stdin) : Cardinality(OutputsFor(i)) <= 1

\* Two lines have been read, one of which json.loads rejected, and one
\* line has been written.
C25_Witness ==
    /\ nread = 2
    /\ LinesRead(NotRejected) = 1
    /\ Len(stdout) = 1

\* --------------------------------------------------------------------- C26
\* The sessions created so far that are open.
OpenSessions == { k \in DOMAIN sessions : sessions[k] = "open" }

\* C26 as stated: under any sequence of calls at most one session is open,
\* and right after __aexit__ none is.
C26_NoSessionLost ==
    /\ Cardinality(OpenSessions) <= 1
    /\ (calls # <<>> /\ calls[Len(calls)].op = "__aexit__") => OpenSessions = {}

\* --------------------------------------------------------------------- C27
\* __aexit__ has closed a session and __aenter__ has not been called since.
ClosedByAExit ==
    \E k \in DOMAIN calls :
        /\ calls[k].op = "__aexit__"
        /\ \E j \in 1..(k - 1) : calls[j].op \in {"__aenter__", "forward_request"}
        /\ \A j \in (k + 1)..Len(calls) : calls[j].op # "__aenter__"

\* C27: a forward_request call made after __aexit__ has closed the session
\* creates no session, issues no POST, and returns the -32603 envelope
\* under the id of its argument.
C27_ForwardAfterExitFails ==
    [][(/\ ClosedByAExit
        /\ Len(calls') = Len(calls) + 1
        /\ calls'[Len(calls')].op = "forward_request") =>
           /\ sessions' = sessions
           /\ session' = session
           /\ posts' = posts
           /\ IsErrorEnvelope(Dumps(returned'), HttpFailedCode,
                              Encode(DictGet(calls'[Len(calls')].arg, "id")))]_vars

\* forward_request has been called after __aexit__ closed a session on
\* which a POST had gone out, and it has returned the -32603 envelope.
C27_Witness ==
    /\ Len(calls) >= 3
    /\ calls[Len(calls)].op = "forward_request"
    /\ calls[Len(calls) - 1].op = "__aexit__"
    /\ Len(posts) >= 1
    /\ sessions = <<"closed">>
    /\ IsErrorEnvelope(Dumps(returned), HttpFailedCode,
                       Encode(DictGet(calls[Len(calls)].arg, "id")))

\* --------------------------------------------------------------------- C28
\* The input of a lockstep client whose stream starts at the notification:
\* notifications/initialized, written without reading a line, then requests,
\* each written after the line for the one before has been read.
IsLockstepInput(in) ==
    /\ Len(in) >= 2
    /\ in[1] = InitializedLine
    /\ \A j \in 2..Len(in) : IsRequestLine(in[j])

\* The line such a client reads after writing input line j, its (j-1)th
\* request: the (j-1)th line on the pipe.
LineReadAfter(j) == stdout[j - 1]

\* C28 as stated: every line a lockstep client reads carries the id of the
\* request it has just written.
C28_ClientReadsOwnResponse ==
    IsLockstepInput(stdin) =>
        \A j \in 2..Len(stdin) :
            Len(stdout) >= j - 1 =>
                IsEnvelopeWithId(LineReadAfter(j).text,
                                 IdTreeOf(stdin[j].text.tree))

\* --------------------------------------------------------------------- C29
\* Every line of the input is a message of the harness.
IsHarnessInput(in) == \A j \in DOMAIN in : in[j] \in HarnessLines

C30_AllToolsPass ==
    (/\ hpc = "done"
     /\ available_tools = AllExpectedTools
     /\ total_tools_tested = Len(ToolNames)
     /\ error_answers = 0) =>
        /\ failed_tests = 0
        /\ passed_tests = total_tools_tested
        /\ exit_code = 0

\* ---------------------------------------------------------------------
\* C31: the URL is set by the constructor (the default when the argument is
\* left out) and no call on the bridge changes it: every POST of the
\* instance went to the URL the instance holds, so all of them went to the
\* same one.
C31_UrlFixed ==
    /\ [](\A k \in DOMAIN posts : posts[k].url = mcp_url)
    /\ [][mcp_url' = mcp_url]_vars

\* A bridge constructed with a URL of the caller's own has issued two POSTs,
\* each on a session of its own (an __aenter__ came between them).
C31_Witness ==
    /\ mcp_url # DefaultUrl
    /\ Len(posts) >= 2
    /\ posts[1].session # posts[2].session

\* ---------------------------------------------------------------------
\* C32: within one run of a script, every tools/call written to the server
\* carries an id that no request written earlier in the run carried,
\* whether or not a send or the reading of its answer raised.
C32_CallIdsDistinct ==
    \A i, j \in DOMAIN sent :
        i < j /\ sent[j].method = "tools/call" => sent[i].id # sent[j].id

\* ---------------------------------------------------------------------
\* C33: every way out of the test body of a script that spawned a server
\* goes through process.terminate(); process.kill() is called exactly when
\* the process has not exited after the 5 seconds of process.wait; and once
\* the body has been left the process does not stay alive.
C33_SpawnedProcessStopped ==
    /\ [](hpc = "done" /\ process # "none"
            => terminate_called /\ (kill_sent \/ process = "exited"))
    /\ [](kill_sent => terminate_called /\ waited = WaitTimeout)
    /\ (exit_path \in {"normal end", "early return", "exception"}
            /\ script \in SpawningScripts) ~> (process = "exited")

\* A script returned early from its body, its server ignored SIGTERM for 5
\* seconds, was sent SIGKILL and is gone.
C33_Witness ==
    /\ exit_path = "early return"
    /\ hpc = "done"
    /\ kill_sent
    /\ waited = WaitTimeout
    /\ process = "exited"

====
